---- MODULE Spec2Model ----
(***************************************************************************)
(* tatum: markdown previewer.  Model of the rendering and link-resolution  *)
(* pipeline (src/src/render.rs) and of the file-watch notifier             *)
(* (src/src/routes/watch.rs).                                              *)
(*                                                                         *)
(* Strings are sequences of symbols.  "/", "." and ":" are the characters  *)
(* of those names; every other symbol ("a", "doc", "https", ...) stands    *)
(* for a non-empty run of ASCII letters.                                   *)
(***************************************************************************)
EXTENDS Naturals, Sequences, FiniteSets

\* ------------------------------------------------------------------ bounds

MaxPathLen == 5

MaxEvents == 2

MaxFsEvents == 3

NumSubs == 2

\* ------------------------------------------------------- sequence helpers

Front(s) == SubSeq(s, 1, Len(s) - 1)

Last(s) == s[Len(s)]

StrUpTo(S, n) == UNION {[1..k -> S] : k \in 0..n}

IsPrefix(p, s) == Len(p) <= Len(s) /\ SubSeq(s, 1, Len(p)) = p

None == <<>>

Some(v) == <<v>>

\* ------------------------------------------------------ std::path::Path

RootDir == <<"/">>

CurDir == <<".">>

ParentDir == <<".", ".">>

\* Path::has_root / is_absolute on unix
is_absolute(s) == s # <<>> /\ s[1] = "/"

is_relative(s) == ~is_absolute(s)

RECURSIVE SplitSep(_, _)
\* the segments of s between separators, empty ones included; cur is the
\* segment being read
SplitSep(s, cur) ==
  IF s = <<>> THEN <<cur>>
  ELSE IF Head(s) = "/" THEN <<cur>> \o SplitSep(Tail(s), <<>>)
  ELSE SplitSep(Tail(s), Append(cur, Head(s)))

RECURSIVE KeepSegments(_, _, _)
\* Components: empty segments are skipped, "." is kept only as the first
\* segment of a rootless path, ".." and names are kept
KeepSegments(segs, first, rooted) ==
  IF segs = <<>> THEN <<>>
  ELSE LET g == Head(segs)
           rest == KeepSegments(Tail(segs), FALSE, rooted)
       IN IF g = <<>> THEN rest
          ELSE IF g = CurDir THEN (IF first /\ ~rooted THEN <<CurDir>> \o rest ELSE rest)
          ELSE <<g>> \o rest

\* Path::components()
Components(s) ==
  IF is_absolute(s)
  THEN <<RootDir>> \o KeepSegments(SplitSep(s, <<>>), FALSE, TRUE)
  ELSE KeepSegments(SplitSep(s, <<>>), TRUE, FALSE)

\* PathBuf::push(path): an absolute path replaces the buffer, otherwise a
\* separator is added unless the buffer is empty or already ends with one
Push(buf, p) ==
  IF is_absolute(p) THEN p
  ELSE IF buf # <<>> /\ Last(buf) # "/" THEN buf \o <<"/">> \o p
  ELSE buf \o p

\* Path::join
Join(base, p) == Push(base, p)

RECURSIVE Collect(_, _)
\* FromIterator for PathBuf: push every component onto buf
Collect(comps, buf) ==
  IF comps = <<>> THEN buf
  ELSE Collect(Tail(comps), Push(buf, Head(comps)))

\* Path::parent(): None for the empty path and for the root, otherwise the
\* path without its last component
Parent(s) ==
  LET cs == Components(s)
  IN IF cs = <<>> \/ Last(cs) = RootDir THEN None
     ELSE Some(Collect(Front(cs), <<>>))

PopAny(buf) ==
  LET cs == Components(buf)
  IN IF cs = <<>> THEN buf ELSE Collect(Front(cs), <<>>)

\* PathBuf::pop(): truncate to the parent; nothing happens when there is none
Pop(buf) ==
  LET par == Parent(buf)
  IN IF par = None THEN buf ELSE par[1]

\* ------------------------------------------------- join_and_canonicalize

RECURSIVE CleanLoop(_, _)
\* the loop of render.rs:185-193 over the remaining components
CleanLoop(comps, clean_path) ==
  IF comps = <<>> THEN clean_path
  ELSE LET component == Head(comps)
       IN IF component = ParentDir THEN CleanLoop(Tail(comps), Pop(clean_path))
          ELSE IF component = CurDir THEN CleanLoop(Tail(comps), clean_path)
          ELSE CleanLoop(Tail(comps), Push(clean_path, component))

join_on_file_itself(path, current_file) ==
  CleanLoop(Components(Join(current_file, path)), <<>>)

join_without_cleaning(path, current_file) ==
  LET par == Parent(current_file)
  IN Join(IF par = None THEN current_file ELSE par[1], path)

join_and_canonicalize(path, current_file) ==
  LET par == Parent(current_file)
      current_dir == Join(IF par = None THEN current_file ELSE par[1], path)
  IN CleanLoop(Components(current_dir), <<>>)

\* ------------------------------------------------ relative path under cwd

is_child_path_lt(parent_dir, child) ==
  IF is_relative(child) THEN FALSE
  ELSE LET parent_components == Components(parent_dir)
           child_components == Components(child)
       IN IF Len(child_components) < Len(parent_components) THEN FALSE
          ELSE \A k \in 1..Len(parent_components) :
                 parent_components[k] = child_components[k]

is_child_path(parent_dir, child) ==
  IF is_relative(child) THEN FALSE
  ELSE LET parent_components == Components(parent_dir)
           child_components == Components(child)
       IN IF Len(child_components) <= Len(parent_components) THEN FALSE
          ELSE \A k \in 1..Len(parent_components) :
                 parent_components[k] = child_components[k]

\* Path::strip_prefix: the components after base's, or Err (None)
strip_prefix(p, base) ==
  LET pc == Components(p)
      bc == Components(base)
  IN IF IsPrefix(bc, pc)
     THEN Some(SubSeq(pc, Len(bc) + 1, Len(pc)))
     ELSE None

\* env_cwd is std::env::current_dir(): None when it fails
truncate_cwd(file_path, env_cwd) ==
  IF env_cwd = None THEN None
  ELSE LET stripped == strip_prefix(file_path, env_cwd[1])
       IN IF stripped = None THEN None
          ELSE Some(Collect(stripped[1], <<>>))

get_relative_path_under_cwd(file_path, env_cwd) ==
  IF env_cwd # None
  THEN IF is_child_path(env_cwd[1], file_path)
       THEN truncate_cwd(file_path, env_cwd)
       ELSE Some(file_path)
  ELSE Some(file_path)

\* ------------------------------------------------------------ url::Url

\* a symbol standing for a run of letters
Letter(c) == c \notin {"/", ".", ":"}

SchemeChar(c) == Letter(c) \/ c = "."

RECURSIVE IndexOf(_, _, _)
\* the first index k >= from with s[k] = c, or Len(s) + 1
IndexOf(s, c, from) ==
  IF from > Len(s) THEN Len(s) + 1
  ELSE IF s[from] = c THEN from
  ELSE IndexOf(s, c, from + 1)

\* after "scheme:": with "//" an authority follows, whose port (no digit is
\* among the symbols) must be empty and whose host must not be empty when a
\* port separator is present; anything else is a path or an opaque path
AuthorityOk(r) ==
  IF Len(r) >= 2 /\ r[1] = "/" /\ r[2] = "/"
  THEN LET stop == IndexOf(r, "/", 3)
           auth == SubSeq(r, 3, stop - 1)
           colon == IndexOf(auth, ":", 1)
       IN colon > Len(auth) \/ (colon > 1 /\ colon = Len(auth))
  ELSE TRUE

\* dest_url.parse::<Url>().is_ok(): an absolute URL, i.e. a scheme (a letter,
\* then letters and "."), a ":" and a well-formed remainder
IsUrl(s) ==
  LET colon == IndexOf(s, ":", 1)
  IN /\ colon >= 2
     /\ colon <= Len(s)
     /\ Letter(s[1])
     /\ \A k \in 2..(colon - 1) : SchemeChar(s[k])
     /\ AuthorityOk(SubSeq(s, colon + 1, Len(s)))

\* dest_url.parse::<PathBuf>(): the error type is Infallible
parse_PathBuf(s) == Some(s)

\* ------------------------------------------------------------ data URLs

B64Alphabet == <<
  "A", "B", "C", "D", "E", "F", "G", "H", "I", "J", "K", "L", "M", "N", "O", "P",
  "Q", "R", "S", "T", "U", "V", "W", "X", "Y", "Z", "a", "b", "c", "d", "e", "f",
  "g", "h", "i", "j", "k", "l", "m", "n", "o", "p", "q", "r", "s", "t", "u", "v",
  "w", "x", "y", "z", "0", "1", "2", "3", "4", "5", "6", "7", "8", "9", "+", "/" >>

B64Char(n) == B64Alphabet[n + 1]

RECURSIVE B64(_)
\* general_purpose::STANDARD.encode: three bytes to four characters, padded
B64(bs) ==
  IF bs = <<>> THEN <<>>
  ELSE IF Len(bs) = 1
    THEN <<B64Char(bs[1] \div 4), B64Char((bs[1] % 4) * 16), "=", "=">>
  ELSE IF Len(bs) = 2
    THEN <<B64Char(bs[1] \div 4),
           B64Char((bs[1] % 4) * 16 + bs[2] \div 16),
           B64Char((bs[2] % 16) * 4), "=">>
  ELSE <<B64Char(bs[1] \div 4),
         B64Char((bs[1] % 4) * 16 + bs[2] \div 16),
         B64Char((bs[2] % 16) * 4 + bs[3] \div 64),
         B64Char(bs[3] % 64)>> \o B64(SubSeq(bs, 4, Len(bs)))

DataUrlHead(mime_type) == <<"data", ":">> \o mime_type \o <<";", "base64", ",">>

data_url(data, mime_type) == DataUrlHead(mime_type) \o B64(data)

MimeSvg == <<"image", "/", "svg+xml">>

MimePng == <<"image", "/", "png">>

MimeTextPlain == <<"text", "/", "plain">>

RECURSIVE LastIndexOf(_, _, _)
\* the last index k <= from with s[k] = c, or 0
LastIndexOf(s, c, from) ==
  IF from = 0 THEN 0
  ELSE IF s[from] = c THEN from
  ELSE LastIndexOf(s, c, from - 1)

\* Path::extension: of the final name, what follows its last "." (not a
\* leading one)
Extension(p) ==
  LET cs == Components(p)
  IN IF cs = <<>> \/ Last(cs) \in {RootDir, CurDir, ParentDir} THEN None
     ELSE LET name == Last(cs)
              dot == LastIndexOf(name, ".", Len(name))
          IN IF dot <= 1 THEN None
             ELSE Some(SubSeq(name, dot + 1, Len(name)))

\* mime_guess::from_path(path).first_raw().unwrap_or("text/plain")
MimeOf(p) ==
  LET ext == Extension(p)
  IN IF ext = Some(<<"png">>) THEN MimePng
     ELSE IF ext = Some(<<"svg">>) THEN MimeSvg
     ELSE MimeTextPlain

\* the bytes of the rendered text.svg template for a fill and a text
SvgTemplate(fill, text) == <<60>> \o fill \o <<62>> \o text

Red == <<114, 101, 100>>

MsgDiskError == <<68, 105, 115, 107, 32, 101, 114, 114, 111, 114, 46>>

MsgUnparsable == <<85, 110, 97, 98, 108, 101>>

generate_message_plain(message, color) ==
  data_url(SvgTemplate(color, message), MimeTextPlain)

generate_message_data_url(message, color) ==
  data_url(SvgTemplate(color, message), MimeSvg)

\* PathResolveExt::resolve_in: a relative path is taken against the base
resolve_in(p, base) == IF is_absolute(p) THEN p ELSE Join(base, p)

\* what tokio::fs::read can give: an error, or the bytes of the file
FileBytes == {<<>>, <<137, 80, 78, 71>>}

ReadOutcomes ==
  {[read |-> "err", bytes |-> <<>>]} \cup
  {[read |-> "ok", bytes |-> b] : b \in FileBytes}

NoRead == [read |-> "none", bytes |-> <<>>]

path_to_data_url(p, outcome) ==
  IF outcome.read = "ok" THEN Some(data_url(outcome.bytes, MimeOf(p))) ELSE None

\* ------------------------------------------------- render_doc, per event

image_dest_keep_on_error(dest_url, path, outcome) ==
  IF IsUrl(dest_url) THEN dest_url
  ELSE LET got == path_to_data_url(resolve_in(dest_url, path), outcome)
       IN IF got # None THEN got[1] ELSE dest_url

\* render.rs:68-78: the new destination of an inline image
image_dest(dest_url, path, outcome) ==
  IF IsUrl(dest_url) THEN dest_url
  ELSE LET image_path == parse_PathBuf(dest_url)
       IN IF image_path # None
          THEN LET got == path_to_data_url(resolve_in(image_path[1], path), outcome)
               IN IF got # None THEN got[1]
                  ELSE generate_message_data_url(MsgDiskError, Red)
          ELSE generate_message_data_url(MsgUnparsable, Red)

NavPrefix == <<"/", "?", "path", "=">>

link_dest_relative_only(dest_url, path, env_cwd) ==
  IF IsUrl(dest_url) \/ is_absolute(dest_url) THEN dest_url
  ELSE NavPrefix \o join_and_canonicalize(dest_url, path)

\* render.rs:89-110: the new destination of an inline link
link_dest(dest_url, path, env_cwd) ==
  IF IsUrl(dest_url) THEN dest_url
  ELSE LET parsed_path == parse_PathBuf(dest_url)
       IN IF parsed_path = None THEN dest_url
          ELSE LET fp == IF is_relative(parsed_path[1])
                         THEN join_and_canonicalize(parsed_path[1], path)
                         ELSE parsed_path[1]
                   rel == get_relative_path_under_cwd(fp, env_cwd)
                   file_path == IF rel # None THEN rel[1] ELSE fp
               IN NavPrefix \o file_path

IsInline(e, kind) == e.kind = kind /\ e.link_type = "Inline"

transform_any_link_type(e, path, env_cwd, outcome) ==
  IF e.kind = "StartImage"
  THEN [e EXCEPT !.dest_url = image_dest(e.dest_url, path, outcome)]
  ELSE IF e.kind = "StartLink"
  THEN [e EXCEPT !.dest_url = link_dest(e.dest_url, path, env_cwd)]
  ELSE e

\* render.rs:60-112: the body of the loop for one event
transform_event(e, path, env_cwd, outcome) ==
  IF IsInline(e, "StartImage")
  THEN [e EXCEPT !.dest_url = image_dest(e.dest_url, path, outcome)]
  ELSE IF IsInline(e, "StartLink")
  THEN [e EXCEPT !.dest_url = link_dest(e.dest_url, path, env_cwd)]
  ELSE e

\* whether the loop body reads a file for this event
NeedsRead(e) == IsInline(e, "StartImage") /\ ~IsUrl(e.dest_url)

\* ------------------------------------------------------------------ state

VARIABLES
  pc,          \* render_doc: "canonicalize", "read", "transform", "done"
  path,        \* the canonical path of the document
  cwd,         \* std::env::current_dir() of the process
  parsed,      \* the events the parser yielded
  events,      \* the events vector the loop mutates
  i,           \* the position of the loop in events
  io,          \* per visited event, what the file read gave
  result,      \* what render_doc returned
  fnPc,        \* path functions: "input", "joined", "relativized"
  fnRef,       \* the path argument
  fnBase,      \* current_file
  fnCwd,       \* current_dir() as an Option
  fnOut,       \* the returned value
  wpc,         \* handle_ws, per subscription: "setup", "recv", "send", "panicked"
  panicAt,     \* the unwrap that panicked
  chan,        \* the unbounded channel
  rx,          \* the receiver: "alive" or "dropped"
  inflight,    \* the event handle_ws took and has not answered
  socket,      \* the WebSocket: "open" or "closed"
  watcher,     \* the watcher thread: "none", "running", "stopping", "dead"
  cbPanicked,  \* the watcher callback panicked on a dropped channel
  delivered,   \* the events the callback was called with
  sent         \* the messages sent on the socket

renderVars == <<pc, path, cwd, parsed, events, i, io, result>>

fnVars == <<fnPc, fnRef, fnBase, fnCwd, fnOut>>

watchVars == <<wpc, panicAt, chan, rx, inflight, socket, watcher, cbPanicked, delivered, sent>>

vars == <<renderVars, fnVars, watchVars>>

RenderIdle ==
  /\ pc = "idle" /\ path = <<>> /\ cwd = None /\ parsed = <<>> /\ events = <<>>
  /\ i = 0 /\ io = <<>> /\ result = [status |-> "none", page |-> <<>>]

FnIdle ==
  fnPc = "idle" /\ fnRef = <<>> /\ fnBase = <<>> /\ fnCwd = None /\ fnOut = <<>>

WatchIdle ==
  /\ wpc = "idle" /\ panicAt = "none" /\ chan = <<>> /\ rx = "alive" /\ inflight = 0
  /\ socket = "open" /\ watcher = "none" /\ cbPanicked = FALSE
  /\ delivered = <<>> /\ sent = <<>>

\* ------------------------------------------------------ render_doc inputs

\* /notes/a/doc.md, /w/doc.md and /doc.md: what canonicalize can return
DocPaths ==
  { <<"/", "notes", "/", "a", "/", "doc", ".", "md">>,
    <<"/", "w", "/", "doc", ".", "md">>,
    <<"/", "doc", ".", "md">> }

\* the working directory of the process
CwdPaths == { <<"/", "w">>, <<"/">> }

DestHttps == <<"https", ":", "/", "/", "example", ".", "com">>

DestOther == <<".", ".", "/", "other", ".", "md">>

DestPic == <<".", ".", "/", "img", "/", "pic", ".", "png">>

DestAbsDots == <<"/", "n", "/", ".", ".", "/", "b">>

DestUnderCwd == <<"/", "w", "/", ".", "/", "x">>

DestDeep == <<".", ".", "/", ".", ".", "/", ".", ".", "/", "x">>

Dests == {DestHttps, DestOther, DestPic, DestAbsDots, DestUnderCwd, DestDeep}

TextEvent == [kind |-> "Text", link_type |-> "None", dest_url |-> <<>>, title |-> "t"]

\* the destinations of inline images: those whose extension, if any, is png
ImageDests == Dests \ {DestOther}

\* Event::Text and Event::Start(Tag::Image / Tag::Link) with their link type
EventSet ==
  {TextEvent} \cup
  [kind : {"StartLink"}, link_type : {"Inline"}, dest_url : Dests, title : {"t"}] \cup
  [kind : {"StartImage"}, link_type : {"Inline"}, dest_url : ImageDests,
   title : {"t"}] \cup
  [kind : {"StartImage", "StartLink"}, link_type : {"Reference"},
   dest_url : {DestOther}, title : {"t"}]

Docs == StrUpTo(EventSet, MaxEvents)

\* pulldown_cmark::html::push_html, one element per event
Html(e) ==
  IF e.kind = "StartImage" THEN <<"<img src=">> \o e.dest_url \o <<"title=", e.title>>
  ELSE IF e.kind = "StartLink" THEN <<"<a href=">> \o e.dest_url \o <<"title=", e.title>>
  ELSE <<"text">>

RECURSIVE push_html(_)
push_html(es) == IF es = <<>> THEN <<>> ELSE Html(Head(es)) \o push_html(Tail(es))

PageTemplate(body, title, use_websocket) ==
  [title |-> title, body |-> body, use_websocket |-> use_websocket]

\* ------------------------------------------------------ render_doc steps

\* render.rs:49, path.canonicalize()?
Canonicalize ==
  /\ pc = "canonicalize"
  /\ \/ /\ result' = [status |-> "Err", page |-> <<>>]
        /\ pc' = "done"
        /\ path' = path
     \/ /\ \E p \in DocPaths : path' = p
        /\ pc' = "read"
        /\ result' = result
  /\ UNCHANGED <<cwd, parsed, events, i, io, fnVars, watchVars>>

\* render.rs:51-57, read_to_string(&path).await? and the parse of the text
ReadSource ==
  /\ pc = "read"
  /\ \/ /\ result' = [status |-> "Err", page |-> <<>>]
        /\ pc' = "done"
        /\ UNCHANGED <<parsed, events, i>>
     \/ /\ \E doc \in Docs : parsed' = doc /\ events' = doc
        /\ i' = 1
        /\ pc' = "transform"
        /\ result' = result
  /\ UNCHANGED <<path, cwd, io, fnVars, watchVars>>

TransformStepPropagates ==
  /\ pc = "transform"
  /\ i <= Len(events)
  /\ \E outcome \in (IF NeedsRead(events[i]) THEN ReadOutcomes ELSE {NoRead}) :
       /\ io' = Append(io, outcome)
       /\ IF outcome.read = "err"
          THEN /\ result' = [status |-> "Err", page |-> <<>>]
               /\ pc' = "done"
               /\ events' = events
          ELSE /\ events' = [events EXCEPT
                               ![i] = transform_event(events[i], path, cwd, outcome)]
               /\ UNCHANGED <<pc, result>>
  /\ i' = i + 1
  /\ UNCHANGED <<path, cwd, parsed, fnVars, watchVars>>

\* render.rs:60-112, one iteration of the loop
TransformStep ==
  /\ pc = "transform"
  /\ i <= Len(events)
  /\ \E outcome \in (IF NeedsRead(events[i]) THEN ReadOutcomes ELSE {NoRead}) :
       /\ events' = [events EXCEPT ![i] = transform_event(events[i], path, cwd, outcome)]
       /\ io' = Append(io, outcome)
  /\ i' = i + 1
  /\ UNCHANGED <<pc, path, cwd, parsed, result, fnVars, watchVars>>

\* render.rs:114-123, serialize and compose; routes/index.rs:18 passes true
Compose ==
  /\ pc = "transform"
  /\ i > Len(events)
  /\ result' = [status |-> "Ok", page |-> PageTemplate(push_html(events), path, TRUE)]
  /\ pc' = "done"
  /\ UNCHANGED <<path, cwd, parsed, events, i, io, fnVars, watchVars>>

Init ==
  /\ pc = "canonicalize" /\ path = <<>> /\ cwd \in {Some(c) : c \in CwdPaths}
  /\ parsed = <<>> /\ events = <<>> /\ i = 0 /\ io = <<>>
  /\ result = [status |-> "none", page |-> <<>>]
  /\ FnIdle /\ WatchIdle

Next == Canonicalize \/ ReadSource \/ TransformStep \/ Compose

Spec == Init /\ [][Next]_vars

\* ------------------------------------------------------- path functions

PathSyms == {"/", ".", "a"}

\* "../linux.md", "../other.md" and "/a/child_file"
ExampleRefs ==
  { <<".", ".", "/", "linux", ".", "md">>,
    <<".", ".", "/", "other", ".", "md">>,
    <<"/", "a", "/", "child_file">> }

RefInputs == StrUpTo(PathSyms, MaxPathLen) \cup ExampleRefs

\* /home/user/Notes/slipbox/networking/dns.md, /notes/a/doc.md, /doc.md,
\* doc.md, ./networking/dns.md, /a/doc.md
BaseInputs ==
  { <<"/", "home", "/", "user", "/", "Notes", "/", "slipbox", "/", "networking",
      "/", "dns", ".", "md">>,
    <<"/", "notes", "/", "a", "/", "doc", ".", "md">>,
    <<"/", "doc", ".", "md">>,
    <<"doc", ".", "md">>,
    <<".", "/", "networking", "/", "dns", ".", "md">>,
    <<"/", "a", "/", "doc", ".", "md">> }

CwdInputs == {None, Some(<<"/">>), Some(<<"/", "a">>)}

InitPath ==
  /\ fnPc = "input" /\ fnRef \in RefInputs /\ fnBase \in BaseInputs
  /\ fnCwd \in CwdInputs /\ fnOut = <<>>
  /\ RenderIdle /\ WatchIdle

ApplyJoin ==
  /\ fnPc = "input"
  /\ fnOut' = join_and_canonicalize(fnRef, fnBase)
  /\ fnPc' = "joined"
  /\ UNCHANGED <<fnRef, fnBase, fnCwd, renderVars, watchVars>>

ApplyRelative ==
  /\ fnPc = "input"
  /\ fnOut' = get_relative_path_under_cwd(fnRef, fnCwd)
  /\ fnPc' = "relativized"
  /\ UNCHANGED <<fnRef, fnBase, fnCwd, renderVars, watchVars>>

NextPath == ApplyJoin \/ ApplyRelative

SpecPath == InitPath /\ [][NextPath]_vars

\* ------------------------------------------------- handle_ws (watch.rs)

\* the WebSocket connections to /watch, each served by its own handle_ws task
Subs == 1..NumSubs

InitWatch ==
  /\ wpc = [s \in Subs |-> "setup"]
  /\ panicAt = [s \in Subs |-> "none"]
  /\ chan = [s \in Subs |-> <<>>]
  /\ rx = [s \in Subs |-> "alive"]
  /\ inflight = [s \in Subs |-> 0]
  /\ socket = [s \in Subs |-> "open"]
  /\ watcher = [s \in Subs |-> "none"]
  /\ cbPanicked = [s \in Subs |-> FALSE]
  /\ delivered = [s \in Subs |-> <<>>]
  /\ sent = [s \in Subs |-> <<>>]
  /\ RenderIdle /\ FnIdle

\* what a panic of handle_ws unwinds: the watcher is dropped (its thread is
\* told to stop), then the receiver with what the channel still holds
Unwind(s, at) ==
  /\ wpc' = [wpc EXCEPT ![s] = "panicked"]
  /\ panicAt' = [panicAt EXCEPT ![s] = at]
  /\ watcher' = [watcher EXCEPT ![s] = IF @ = "running" THEN "stopping" ELSE @]
  /\ rx' = [rx EXCEPT ![s] = "dropped"]
  /\ chan' = [chan EXCEPT ![s] = <<>>]

\* watch.rs:27-36: the channel, the watcher and watcher.watch(..).unwrap()
Setup(s) ==
  /\ wpc[s] = "setup"
  /\ \/ /\ wpc' = [wpc EXCEPT ![s] = "recv"]
        /\ watcher' = [watcher EXCEPT ![s] = "running"]
        /\ UNCHANGED <<panicAt, rx, chan>>
     \/ Unwind(s, "watch")
  /\ UNCHANGED <<inflight, socket, cbPanicked, delivered, sent, renderVars, fnVars>>

\* watch.rs:32, the callback |event| tx.send(event).unwrap() on the watcher
\* thread; the thread may still be delivering when it is told to stop
Callback(s) ==
  /\ watcher[s] \in {"running", "stopping"}
  /\ Len(delivered[s]) < MaxFsEvents
  /\ delivered' = [delivered EXCEPT ![s] = Append(@, Len(@) + 1)]
  /\ IF rx[s] = "alive"
     THEN /\ chan' = [chan EXCEPT ![s] = Append(@, Len(delivered[s]) + 1)]
          /\ UNCHANGED <<watcher, cbPanicked>>
     ELSE /\ cbPanicked' = [cbPanicked EXCEPT ![s] = TRUE]
          /\ watcher' = [watcher EXCEPT ![s] = "dead"]
          /\ chan' = chan
  /\ UNCHANGED <<wpc, panicAt, rx, inflight, socket, sent, renderVars, fnVars>>

RecvNewest(s) ==
  /\ wpc[s] = "recv"
  /\ chan[s] # <<>>
  /\ inflight' = [inflight EXCEPT ![s] = Last(chan[s])]
  /\ chan' = [chan EXCEPT ![s] = <<>>]
  /\ wpc' = [wpc EXCEPT ![s] = "send"]
  /\ UNCHANGED <<panicAt, rx, socket, watcher, cbPanicked, delivered, sent, renderVars, fnVars>>

\* watch.rs:38, rx.recv().await yields the oldest event; it waits while the
\* channel is empty, and the sender lives as long as the watcher
Recv(s) ==
  /\ wpc[s] = "recv"
  /\ chan[s] # <<>>
  /\ inflight' = [inflight EXCEPT ![s] = Head(chan[s])]
  /\ chan' = [chan EXCEPT ![s] = Tail(@)]
  /\ wpc' = [wpc EXCEPT ![s] = "send"]
  /\ UNCHANGED <<panicAt, rx, socket, watcher, cbPanicked, delivered, sent, renderVars, fnVars>>

\* watch.rs:41, socket.send(Message::Text("")).await.unwrap()
Send(s) ==
  /\ wpc[s] = "send"
  /\ IF socket[s] = "open"
     THEN /\ sent' = [sent EXCEPT ![s] = Append(@, [payload |-> "", cause |-> inflight[s]])]
          /\ wpc' = [wpc EXCEPT ![s] = "recv"]
          /\ inflight' = [inflight EXCEPT ![s] = 0]
          /\ UNCHANGED <<panicAt, rx, chan, watcher>>
     ELSE /\ Unwind(s, "send")
          /\ UNCHANGED <<sent, inflight>>
  /\ UNCHANGED <<socket, cbPanicked, delivered, renderVars, fnVars>>

\* the client closes the WebSocket, or the connection breaks
ClientClose(s) ==
  /\ socket[s] = "open"
  /\ wpc[s] # "setup"
  /\ socket' = [socket EXCEPT ![s] = "closed"]
  /\ UNCHANGED <<wpc, panicAt, chan, rx, inflight, watcher, cbPanicked, delivered, sent,
                 renderVars, fnVars>>

\* the watcher thread sees the stop request and ends, dropping the sender
WatcherExit(s) ==
  /\ watcher[s] = "stopping"
  /\ watcher' = [watcher EXCEPT ![s] = "dead"]
  /\ UNCHANGED <<wpc, panicAt, chan, rx, inflight, socket, cbPanicked, delivered, sent,
                 renderVars, fnVars>>

NextWatch ==
  \E s \in Subs :
    Setup(s) \/ Callback(s) \/ Recv(s) \/ Send(s) \/ ClientClose(s) \/ WatcherExit(s)

SpecWatch == InitWatch /\ [][NextWatch]_vars

\* ================================================================ claims

RECURSIVE StackClean(_, _)
\* lexical cleaning on a stack of components: ".." removes the last name and
\* is discarded when the stack is empty or holds only the root
StackClean(comps, stack) ==
  IF comps = <<>> THEN stack
  ELSE LET c == Head(comps)
       IN IF c = ParentDir
          THEN StackClean(Tail(comps),
                          IF stack = <<>> \/ Last(stack) = RootDir THEN stack
                          ELSE Front(stack))
          ELSE IF c = CurDir THEN StackClean(Tail(comps), stack)
          ELSE StackClean(Tail(comps), Append(stack, c))

RECURSIVE StackCleanPopsAny(_, _)
\* the same, with ".." removing whatever was pushed last, the root included
StackCleanPopsAny(comps, stack) ==
  IF comps = <<>> THEN stack
  ELSE LET c == Head(comps)
       IN IF c = ParentDir
          THEN StackCleanPopsAny(Tail(comps),
                                 IF stack = <<>> THEN stack ELSE Front(stack))
          ELSE IF c = CurDir THEN StackCleanPopsAny(Tail(comps), stack)
          ELSE StackCleanPopsAny(Tail(comps), Append(stack, c))

\* p names a file: its last component is a name
FileBase(p) ==
  LET cs == Components(p)
  IN cs # <<>> /\ Last(cs) \notin {RootDir, CurDir, ParentDir}

JoinedComponents(r, f) == Components(Parent(f)[1]) \o Components(r)

HasDotComponent(p) ==
  \E k \in 1..Len(Components(p)) : Components(p)[k] \in {CurDir, ParentDir}

\* C2 (as amended): for a relative reference r and a base f that names a
\* file, join_and_canonicalize(r, f) is the lexical cleaning of parent(f)
\* joined with r, where ".." removes the most recently pushed name and is
\* discarded when only the root (or nothing) is left, "." is dropped and
\* every other component is pushed.
C2_JoinCleansKeepingRoot ==
  (fnPc = "joined" /\ is_relative(fnRef) /\ FileBase(fnBase)) =>
    fnOut = Collect(StackClean(JoinedComponents(fnRef, fnBase), <<>>), <<>>)

\* C2 (as stated): each ".." removes the most recently pushed component,
\* whichever it is.
C2_JoinPopsMostRecent ==
  (fnPc = "joined" /\ is_relative(fnRef) /\ FileBase(fnBase)) =>
    fnOut = Collect(StackCleanPopsAny(JoinedComponents(fnRef, fnBase), <<>>), <<>>)

\* "../linux.md" against /home/user/Notes/slipbox/networking/dns.md
C2_Witness ==
  /\ fnPc = "joined"
  /\ fnRef = <<".", ".", "/", "linux", ".", "md">>
  /\ Len(Components(fnBase)) = 7
  /\ fnOut = <<"/", "home", "/", "user", "/", "Notes", "/", "slipbox", "/",
               "linux", ".", "md">>

\* the base is a file directly under the root or under the empty path
RootLevel(f) ==
  /\ FileBase(f)
  /\ \A k \in 1..Len(Components(Parent(f)[1])) :
       Components(Parent(f)[1])[k] \in {RootDir, CurDir}

\* r is one or more ".." followed by names only
ClimbsThenNames(r) ==
  LET cs == Components(r)
  IN /\ is_relative(r)
     /\ cs # <<>>
     /\ cs[1] = ParentDir
     /\ \A k \in 1..Len(cs) : cs[k] # CurDir
     /\ \A k \in 2..Len(cs) : (cs[k] = ParentDir => cs[k - 1] = ParentDir)

Names(cs) == SelectSeq(cs, LAMBDA c : c # ParentDir)

\* C4 (as amended): a ".." met while nothing is left to pop is a no-op and
\* raises nothing; "../x" against a document directly under the root gives
\* "/x" (the root stays), and gives "x" only against a rootless base.
C4_PopPastEmptyKeepsRoot ==
  (fnPc = "joined" /\ RootLevel(fnBase) /\ ClimbsThenNames(fnRef)) =>
    fnOut = Collect((IF is_absolute(fnBase) THEN <<RootDir>> ELSE <<>>)
                      \o Names(Components(fnRef)), <<>>)

\* C4 (as stated): "../x" against a root-level base document yields "x".
C4_RootLevelYieldsBareName ==
  (fnPc = "joined" /\ RootLevel(fnBase) /\ ClimbsThenNames(fnRef)) =>
    fnOut = Collect(Names(Components(fnRef)), <<>>)

\* "../a" against /doc.md gives /a
C4_Witness ==
  /\ fnPc = "joined"
  /\ fnBase = <<"/", "doc", ".", "md">>
  /\ fnRef = <<".", ".", "/", "a">>
  /\ fnOut = <<"/", "a">>

\* p is a component-wise descendant of the working directory
Descendant(p, env_cwd) ==
  /\ env_cwd # None
  /\ is_absolute(p)
  /\ Len(Components(p)) > Len(Components(env_cwd[1]))
  /\ \A k \in 1..Len(Components(env_cwd[1])) :
       Components(p)[k] = Components(env_cwd[1])[k]

\* C5: get_relative_path_under_cwd(p) is p unchanged when p is not a
\* component-wise descendant of the working directory, and is p without the
\* working directory's components (at least one component shorter) exactly
\* when it is.
C5_RelativeUnderCwd ==
  fnPc = "relativized" =>
    /\ fnOut # None
    /\ IF Descendant(fnRef, fnCwd)
       THEN /\ Components(fnOut[1]) =
                 SubSeq(Components(fnRef), Len(Components(fnCwd[1])) + 1,
                        Len(Components(fnRef)))
            /\ Len(Components(fnOut[1])) < Len(Components(fnRef))
            /\ fnOut[1] # fnRef
       ELSE fnOut[1] = fnRef

\* cwd/child_file gives child_file
C5_Witness ==
  /\ fnPc = "relativized"
  /\ fnCwd = Some(<<"/", "a">>)
  /\ fnRef = <<"/", "a", "/", "child_file">>
  /\ fnOut = Some(<<"child_file">>)

\* the events the loop has visited
Visited == 1..Len(io)

LocalLink(e) == IsInline(e, "StartLink") /\ ~IsUrl(e.dest_url)

\* what follows "/?path=" in a rewritten destination
PathValue(d) == SubSeq(d, Len(NavPrefix) + 1, Len(d))

\* C1: an inline link destination that parses as a URL is left unchanged by
\* the transform; any other inline link destination becomes "/?path="
\* followed by a path, and is never left as it was.
C1_LinkUnchangedOrNavigation ==
  \A k \in Visited :
    IsInline(parsed[k], "StartLink") =>
      IF IsUrl(parsed[k].dest_url)
      THEN events[k].dest_url = parsed[k].dest_url
      ELSE /\ IsPrefix(NavPrefix, events[k].dest_url)
           /\ events[k].dest_url # parsed[k].dest_url

\* an external link and an absolute local link in one rendered document
C1_Witness ==
  /\ pc = "done"
  /\ \E k \in Visited :
       /\ IsInline(parsed[k], "StartLink") /\ parsed[k].dest_url = DestHttps
       /\ events[k].dest_url = DestHttps
  /\ \E k \in Visited :
       /\ LocalLink(parsed[k]) /\ is_absolute(parsed[k].dest_url)
       /\ IsPrefix(NavPrefix, events[k].dest_url)

CountParents(p) == Len(SelectSeq(Components(p), LAMBDA c : c = ParentDir))

\* C3 (as amended): the path placed after "/?path=" for a relative local
\* link reference has no "." and no ".." component; an absolute reference
\* is not cleaned: it is used as written (made relative to the working
\* directory when under it) and keeps every ".." it has.
C3_RelativeCleanAbsoluteKept ==
  \A k \in Visited :
    LocalLink(parsed[k]) =>
      IF is_relative(parsed[k].dest_url)
      THEN ~HasDotComponent(PathValue(events[k].dest_url))
      ELSE CountParents(PathValue(events[k].dest_url)) =
             CountParents(parsed[k].dest_url)

\* C3 (as stated): no "." and no ".." component in the path of any local
\* link, relative or absolute.
C3_NoDotComponentEver ==
  \A k \in Visited :
    LocalLink(parsed[k]) => ~HasDotComponent(PathValue(events[k].dest_url))

\* "../other.md" in /notes/a/doc.md becomes /?path=/notes/other.md
C3_Witness ==
  \E k \in Visited :
    /\ LocalLink(parsed[k]) /\ parsed[k].dest_url = DestOther
    /\ path = <<"/", "notes", "/", "a", "/", "doc", ".", "md">>
    /\ cwd = Some(<<"/", "w">>)
    /\ events[k].dest_url = NavPrefix \o <<"/", "notes", "/", "other", ".", "md">>

IsFallbackUrl(d) ==
  d \in {generate_message_data_url(MsgDiskError, Red),
         generate_message_data_url(MsgUnparsable, Red)}

IsFileDataUrl(d) ==
  \E b \in FileBytes, m \in {MimePng, MimeSvg, MimeTextPlain} : d = data_url(b, m)

ExactlyOneForm(d) == IsFileDataUrl(d) # IsFallbackUrl(d)

\* C6 (as amended): after the loop has visited it, an inline image whose
\* destination does not parse as a URL has exactly one Embedded Resource
\* form as its destination, the data URL of the bytes read when the read
\* succeeded and the fallback SVG data URL when it failed; an image whose
\* destination parses as a URL, and an image that is not inline, keeps its
\* destination and has neither form.
C6_LocalInlineImageEmbedded ==
  \A k \in Visited :
    parsed[k].kind = "StartImage" =>
      IF NeedsRead(parsed[k])
      THEN /\ ExactlyOneForm(events[k].dest_url)
           /\ IsFileDataUrl(events[k].dest_url) <=> io[k].read = "ok"
           /\ io[k].read = "ok" =>
                events[k].dest_url =
                  data_url(io[k].bytes, MimeOf(parsed[k].dest_url))
      ELSE /\ events[k].dest_url = parsed[k].dest_url
           /\ ~IsFileDataUrl(events[k].dest_url)
           /\ ~IsFallbackUrl(events[k].dest_url)

\* C6 (as stated): every image reference has exactly one of the two forms.
C6_EveryImageEmbedded ==
  \A k \in Visited :
    parsed[k].kind = "StartImage" => ExactlyOneForm(events[k].dest_url)

\* a rendered document with one image read and one image replaced
C6_Witness ==
  /\ pc = "done"
  /\ \E k \in Visited :
       /\ NeedsRead(parsed[k]) /\ io[k].read = "ok" /\ io[k].bytes # <<>>
       /\ IsPrefix(DataUrlHead(MimePng), events[k].dest_url)
  /\ \E k \in Visited :
       NeedsRead(parsed[k]) /\ io[k].read = "err" /\ IsFallbackUrl(events[k].dest_url)

\* C7: render_doc returns an error only when canonicalizing or reading the
\* source fails, and then no page is produced; once the source is read no
\* reference makes it fail: a failed image read leaves an image/svg+xml
\* data URL and the render returns a page.
C7_OnlySourceFailureFails ==
  /\ result.status = "Err" => (pc = "done" /\ i = 0 /\ io = <<>> /\ result.page = <<>>)
  /\ (pc = "done" /\ i >= 1) =>
       /\ result.status = "Ok"
       /\ Len(io) = Len(parsed)
       /\ result.page.body = push_html(events)
       /\ \A k \in Visited :
            (NeedsRead(parsed[k]) /\ io[k].read = "err") =>
              IsPrefix(DataUrlHead(MimeSvg), events[k].dest_url)

\* a page returned although the read of an image failed
C7_Witness ==
  /\ pc = "done"
  /\ result.status = "Ok"
  /\ \E k \in Visited : NeedsRead(parsed[k]) /\ io[k].read = "err"

\* C10: the loop visits the events once, in order; the vector keeps its
\* length and order, and nothing changes but the destination of the inline
\* start-of-image and start-of-link events: other events, images and links
\* that are not inline, and the title of every event stay as parsed.
C10_OnlyInlineDestinationsChange ==
  /\ Len(events) = Len(parsed)
  /\ pc = "transform" => Len(io) = i - 1
  /\ \A k \in 1..Len(events) :
       /\ events[k].kind = parsed[k].kind
       /\ events[k].link_type = parsed[k].link_type
       /\ events[k].title = parsed[k].title
       /\ (k \notin Visited \/ parsed[k].link_type # "Inline") => events[k] = parsed[k]

\* a reference link left alone next to an inline link that was rewritten
C10_Witness ==
  /\ pc = "done"
  /\ Len(events) = 2
  /\ parsed[1].kind = "StartLink" /\ parsed[1].link_type = "Reference"
  /\ events[1] = parsed[1]
  /\ LocalLink(parsed[2]) /\ events[2].dest_url # parsed[2].dest_url

RECURSIVE Causes(_)
Causes(msgs) == IF msgs = <<>> THEN <<>> ELSE <<Head(msgs).cause>> \o Causes(Tail(msgs))

Pending(s) == (IF wpc[s] = "send" THEN <<inflight[s]>> ELSE <<>>) \o chan[s]

\* C8: a failed send to a closed socket ends the subscription's task
\* cleanly, and the watcher callback is never left sending into a dropped
\* channel.
C8_SendFailureEndsCleanly ==
  \A s \in Subs : panicAt[s] # "send" /\ ~cbPanicked[s]

\* C9: while a subscription's task runs, the messages sent are, in order and
\* one for one, the events the callback delivered, each with an empty
\* payload; what was delivered and not yet sent is waiting in the channel or
\* in the task: nothing is dropped, merged, repeated or invented.
C9_OneMessagePerEvent ==
  \A s \in Subs :
    /\ IsPrefix(Causes(sent[s]), delivered[s])
    /\ \A k \in 1..Len(sent[s]) : sent[s][k].payload = ""
    /\ wpc[s] \in {"recv", "send"} => delivered[s] = Causes(sent[s]) \o Pending(s)

\* two events answered on an open socket while a third waits
C9_Witness ==
  \E s \in Subs :
    /\ socket[s] = "open"
    /\ Len(sent[s]) = 2
    /\ Len(chan[s]) = 1

====
